---------------------------- MODULE Spec2Model ----------------------------
(***************************************************************************)
(* TournamentStore (src/frontend/write_store.py, the TypeScript text it    *)
(* writes to src/lib/stores/tournamentStore.svelte.ts): the client-side    *)
(* store of a live tournament dashboard.  The store is fed by SignalR hub  *)
(* connections (push events), by GET /state snapshots and by a 100 ms      *)
(* countdown timer; the user calls connect, disconnect and the three       *)
(* commands.                                                               *)
(*                                                                         *)
(* Encoding of JavaScript values:                                          *)
(*   null / undefined / ""   None  == << >>                                *)
(*   a present value v       Some(v) == << v >>                            *)
(*   number | string (wire)  [isString, str, num]  (Str(s), Num(n))        *)
(***************************************************************************)
EXTENDS Integers, Sequences, FiniteSets, TLC

VARIABLES
    state,              \* this.state: the TournamentState record
    connection,         \* this.connection: 0 (null) or the id of a hub connection
    channels,           \* every HubConnection built so far, by id
    countdownInterval,  \* this.countdownInterval is set (the timer is armed)
    now,                \* Date.now()
    pending,            \* awaited network calls in flight, by task
    last                \* the handler that ran last and what it returned

vars == <<state, connection, channels, countdownInterval, now, pending, last>>

---------------------------------------------------------------------------
(* Bounds of the model *)

MaxChannels == 2        \* hub connections built in one session
MaxPending == 2         \* awaited network calls in flight at once
MaxNow == 3             \* the clock stops advancing here
MaxBoard == 2           \* coordinates run over 0..MaxBoard-1 on the x axis
MaxBots == 2            \* bots in a roster the service sends
MaxResults == 2         \* results the events of the results scenario add to a history
MaxCode == 13           \* integer codes on the wire run over -2..MaxCode
ServiceHistoryLen == 21 \* results in the longest history GET /state reports

(* Program constants *)

maxReconnectAttempts == 5
BaseDelayMs == 1000
MaxDelayMs == 10000
InitialTimeMs == 420000
InitialTimeSeconds == 420
IncrementSeconds == 5
HistoryKept == 19
RecentLimit == 50
BaseElo == 600

---------------------------------------------------------------------------
(* JavaScript values *)

None == << >>
Some(v) == << v >>
IsNone(o) == Len(o) = 0
IsSome(o) == Len(o) > 0
Get(o) == o[1]

Str(s) == [isString |-> TRUE, str |-> s, num |-> 0]
Num(n) == [isString |-> FALSE, str |-> "", num |-> n]

Min(a, b) == IF a <= b THEN a ELSE b
Max(a, b) == IF a >= b THEN a ELSE b

RECURSIVE Pow2(_)
Pow2(n) == IF n <= 0 THEN 1 ELSE 2 * Pow2(n - 1)

\* Array.prototype.slice(a, b) on a sequence (0-based, end exclusive)
Slice(s, a, b) == SubSeq(s, a + 1, Min(b, Len(s)))

---------------------------------------------------------------------------
(* Normalizers *)

statusMap == [n \in 0..3 |->
    CASE n = 0 -> "idle" [] n = 1 -> "running" [] n = 2 -> "paused" [] n = 3 -> "completed"]

mapStatusFromBackend(status) ==
    IF status.isString THEN status.str
    ELSE IF status.num \in DOMAIN statusMap THEN statusMap[status.num]
    ELSE "idle"

diffMap == [n \in 1..11 |->
    CASE n = 1 -> "beginner" [] n = 2 -> "easy" [] n = 3 -> "normal"
      [] n = 4 -> "medium" [] n = 5 -> "hard" [] n = 6 -> "harder"
      [] n = 7 -> "veryHard" [] n = 8 -> "expert" [] n = 9 -> "master"
      [] n = 10 -> "grandmaster" [] n = 11 -> "legend"]

mapDifficultyMutant(diff) ==
    IF diff.isString THEN diff.str
    ELSE IF diff.num + 1 \in DOMAIN diffMap THEN diffMap[diff.num + 1]
    ELSE "beginner"

mapDifficultyFromBackend(diff) ==
    IF diff.isString THEN diff.str
    ELSE IF diff.num \in DOMAIN diffMap THEN diffMap[diff.num]
    ELSE "beginner"

---------------------------------------------------------------------------
(* formatDuration *)

formatDuration(ms) ==
    LET seconds == ms \div 1000
        minutes == seconds \div 60
        hours == minutes \div 60
    IN  IF hours > 0 THEN [fmt |-> "h m", a |-> hours, b |-> minutes % 60]
        ELSE [fmt |-> "m s", a |-> minutes, b |-> seconds % 60]

---------------------------------------------------------------------------
(* The reconnect policy handed to withAutomaticReconnect *)

nextRetryDelayMutant(previousRetryCount) ==
    IF previousRetryCount > maxReconnectAttempts THEN None
    ELSE Some(Min(BaseDelayMs * Pow2(previousRetryCount), MaxDelayMs))

nextRetryDelayInMilliseconds(previousRetryCount) ==
    IF previousRetryCount >= maxReconnectAttempts THEN None
    ELSE Some(Min(BaseDelayMs * Pow2(previousRetryCount), MaxDelayMs))

---------------------------------------------------------------------------
(* Sorting the roster: Array.prototype.sort((a, b) => b.elo - a.elo), which *)
(* is stable: equal ratings keep their order.                              *)

\* x placed behind every element of the descending sequence s rated >= x
InsertDesc(s, x) ==
    LET k == Cardinality({i \in 1..Len(s) : s[i].elo >= x.elo})
    IN  SubSeq(s, 1, k) \o <<x>> \o SubSeq(s, k + 1, Len(s))

RECURSIVE SortInsert(_)
SortInsert(s) ==
    IF Len(s) = 0 THEN << >>
    ELSE InsertDesc(SortInsert(SubSeq(s, 1, Len(s) - 1)), s[Len(s)])

sortByEloMutant(bots) == bots

sortByElo(bots) == SortInsert(bots)

---------------------------------------------------------------------------
(* Event reducer: what each push-event handler does to this.state.  s is   *)
(* the state before, t is Date.now() when the handler runs.                *)

OrZero(o) == IF IsNone(o) THEN 0 ELSE Get(o)
OrFalse(o) == IF IsNone(o) THEN FALSE ELSE Get(o)

GameStarted(s, t, gameId, redBot, blueBot, redDiff, blueDiff) ==
    [s EXCEPT !.currentMatch = Some([
        gameId |-> gameId, redBotName |-> redBot, blueBotName |-> blueBot,
        redDifficulty |-> redDiff, blueDifficulty |-> blueDiff,
        moveNumber |-> 0, board |-> << >>,
        redTimeRemainingMs |-> InitialTimeMs, blueTimeRemainingMs |-> InitialTimeMs,
        initialTimeSeconds |-> InitialTimeSeconds, incrementSeconds |-> IncrementSeconds,
        lastMove |-> None, lastMoveTimestamp |-> t, lastMoveStats |-> None])]

EngineStatsOf(moveEvent) ==
    [depthAchieved |-> OrZero(moveEvent.depthAchieved),
     nodesSearched |-> OrZero(moveEvent.nodesSearched),
     nodesPerSecond |-> OrZero(moveEvent.nodesPerSecond),
     tableHitRate |-> OrZero(moveEvent.tableHitRate),
     ponderingActive |-> OrFalse(moveEvent.ponderingActive),
     vcfDepthAchieved |-> OrZero(moveEvent.vcfDepthAchieved),
     vcfNodesSearched |-> OrZero(moveEvent.vcfNodesSearched)]

\* board.filter(b => b.x !== moveEvent.x || b.y !== moveEvent.y)
BoardWithout(board, x, y) ==
    LET Keep(b) == b.x # x \/ b.y # y
    IN  SelectSeq(board, Keep)

BoardAfterMoveMutant(board, moveEvent) ==
    Append(board, [x |-> moveEvent.x, y |-> moveEvent.y, player |-> moveEvent.player])

BoardAfterMove(board, moveEvent) ==
    Append(BoardWithout(board, moveEvent.x, moveEvent.y),
           [x |-> moveEvent.x, y |-> moveEvent.y, player |-> moveEvent.player])

MovePlayed(s, t, moveEvent) ==
    IF IsNone(s.currentMatch) THEN s
    ELSE LET m == Get(s.currentMatch)
         IN  [s EXCEPT !.currentMatch = Some([m EXCEPT
                !.moveNumber = moveEvent.moveNumber,
                !.redTimeRemainingMs = moveEvent.redTimeRemainingMs,
                !.blueTimeRemainingMs = moveEvent.blueTimeRemainingMs,
                !.lastMove = Some([x |-> moveEvent.x, y |-> moveEvent.y]),
                !.lastMoveTimestamp = t,
                !.lastMoveStats = Some(EngineStatsOf(moveEvent)),
                !.board = BoardAfterMove(m.board, moveEvent)])]

MatchResultOfMutant(m, finished) ==
    [winner |-> finished.winner, loser |-> finished.loser,
     totalMoves |-> finished.totalMoves, durationMs |-> finished.durationMs,
     winnerDifficulty |-> m.redDifficulty, loserDifficulty |-> m.blueDifficulty,
     isDraw |-> finished.isDraw, endedByTimeout |-> finished.endedByTimeout,
     winnerBotName |-> m.redBotName, loserBotName |-> m.blueBotName]

MatchResultOf(m, finished) ==
    LET isRedWinner == finished.winner = "red"
    IN  [winner |-> finished.winner, loser |-> finished.loser,
         totalMoves |-> finished.totalMoves, durationMs |-> finished.durationMs,
         winnerDifficulty |-> IF isRedWinner THEN m.redDifficulty ELSE m.blueDifficulty,
         loserDifficulty |-> IF isRedWinner THEN m.blueDifficulty ELSE m.redDifficulty,
         isDraw |-> finished.isDraw, endedByTimeout |-> finished.endedByTimeout,
         winnerBotName |-> IF isRedWinner THEN m.redBotName ELSE m.blueBotName,
         loserBotName |-> IF isRedWinner THEN m.blueBotName ELSE m.redBotName]

HistoryAfterFinishMutant(history, result) == <<result>> \o history

HistoryAfterFinish(history, result) == <<result>> \o Slice(history, 0, HistoryKept)

GameFinished(s, finished) ==
    IF IsNone(s.currentMatch) THEN s
    ELSE [s EXCEPT !.matchHistory =
            HistoryAfterFinish(s.matchHistory, MatchResultOf(Get(s.currentMatch), finished))]

TournamentProgress(s, completed, total, percent) ==
    [s EXCEPT !.progress = [completed |-> completed, total |-> total, percent |-> percent]]

TournamentCompleted(s, t, finalStandings, totalGames, durationMs) ==
    [s EXCEPT !.status = "completed",
              !.bots = finalStandings,
              !.progress = [completed |-> totalGames, total |-> totalGames, percent |-> 100],
              !.endTimeUtc = Some(t),
              !.elapsed = formatDuration(durationMs)]

TournamentStatusChangedMutant(s, t, status) ==
    LET mapped == mapStatusFromBackend(status)
    IN  [s EXCEPT !.status = mapped,
                  !.startTimeUtc = IF mapped = "running" THEN Some(t) ELSE s.startTimeUtc]

TournamentStatusChanged(s, t, status) ==
    LET mapped == mapStatusFromBackend(status)
    IN  [s EXCEPT !.status = mapped,
                  !.startTimeUtc = IF mapped = "running" /\ IsNone(s.startTimeUtc)
                                   THEN Some(t) ELSE s.startTimeUtc]

ELOUpdated(s, bots) == [s EXCEPT !.bots = sortByElo(bots)]

---------------------------------------------------------------------------
(* Clock simulator *)

Floored(ms) == Max(0, ms)

updateCountdownMutant(s, t) ==
    IF IsNone(s.currentMatch) \/ s.status # "running" THEN s
    ELSE LET m == Get(s.currentMatch)
             elapsed == t - m.lastMoveTimestamp
         IN  [s EXCEPT !.currentMatch = Some(
                [m EXCEPT !.redTimeRemainingMs = Floored(m.redTimeRemainingMs - elapsed),
                          !.lastMoveTimestamp = t])]

updateCountdown(s, t) ==
    IF IsNone(s.currentMatch) \/ s.status # "running" THEN s
    ELSE LET m == Get(s.currentMatch)
             elapsed == t - m.lastMoveTimestamp
             isRedTurn == m.moveNumber % 2 = 0
         IN  [s EXCEPT !.currentMatch = Some(
                IF isRedTurn
                THEN [m EXCEPT !.redTimeRemainingMs = Floored(m.redTimeRemainingMs - elapsed),
                               !.lastMoveTimestamp = t]
                ELSE [m EXCEPT !.blueTimeRemainingMs = Floored(m.blueTimeRemainingMs - elapsed),
                               !.lastMoveTimestamp = t])]

---------------------------------------------------------------------------
(* Snapshot reconciler: the assignments fetchState makes once the response *)
(* was ok and its JSON parsed.  data is the parsed body.                   *)

OrEmpty(o) == IF IsNone(o) THEN << >> ELSE Get(o)

SnapshotResult(m) ==
    [winner |-> m.winner, loser |-> m.loser, totalMoves |-> m.totalMoves,
     durationMs |-> m.durationMs,
     winnerDifficulty |-> Str(mapDifficultyFromBackend(m.winnerDifficulty)),
     loserDifficulty |-> Str(mapDifficultyFromBackend(m.loserDifficulty)),
     isDraw |-> m.isDraw, endedByTimeout |-> m.endedByTimeout,
     winnerBotName |-> m.winnerBotName, loserBotName |-> m.loserBotName]

SnapshotMatch(cm) ==
    IF IsNone(cm) THEN None
    ELSE Some([Get(cm) EXCEPT
            !.redDifficulty = Str(mapDifficultyFromBackend(Get(cm).redDifficulty)),
            !.blueDifficulty = Str(mapDifficultyFromBackend(Get(cm).blueDifficulty)),
            !.lastMoveStats = None])

ApplySnapshotMutant(s, data) ==
    [s EXCEPT !.status = mapStatusFromBackend(data.status),
              !.progress = [completed |-> data.completedGames, total |-> data.totalGames,
                            percent |-> data.progressPercent],
              !.bots = IF IsNone(data.bots) THEN s.bots ELSE sortByElo(Get(data.bots)),
              !.matchHistory = IF IsNone(data.matchHistory) THEN s.matchHistory
                               ELSE [i \in 1..Len(Get(data.matchHistory)) |->
                                        SnapshotResult(Get(data.matchHistory)[i])],
              !.currentMatch = SnapshotMatch(data.currentMatch),
              !.startTimeUtc = data.startTimeUtc,
              !.endTimeUtc = data.endTimeUtc]

ApplySnapshot(s, data) ==
    [s EXCEPT !.status = mapStatusFromBackend(data.status),
              !.progress = [completed |-> data.completedGames, total |-> data.totalGames,
                            percent |-> data.progressPercent],
              !.bots = sortByElo(OrEmpty(data.bots)),
              !.matchHistory = [i \in 1..Len(OrEmpty(data.matchHistory)) |->
                                    SnapshotResult(OrEmpty(data.matchHistory)[i])],
              !.currentMatch = SnapshotMatch(data.currentMatch),
              !.startTimeUtc = data.startTimeUtc,
              !.endTimeUtc = data.endTimeUtc]

\* The getters
sortedBots == sortByElo(state.bots)
recentMatches == Slice(state.matchHistory, 0, RecentLimit)

---------------------------------------------------------------------------
(* Store lifecycle *)

Msg(prefix, text) == [prefix |-> prefix, text |-> text]

\* Callers of fetchState.  connect() and the onreconnected callback are one origin,
\* "connection": once issued, nothing in the code tells their fetches apart.
FetchOrigins == {"connection", "startTournament", "pauseTournament", "resumeTournament"}
Commands == {"startTournament", "pauseTournament", "resumeTournament"}
FetchTask(by) == [kind |-> "fetch", by |-> by]
PostTask(cmd) == [kind |-> "post", by |-> cmd]
Tasks == {FetchTask(by) : by \in FetchOrigins} \cup {PostTask(cmd) : cmd \in Commands}

RECURSIVE SumOver(_, _)
SumOver(f, S) ==
    IF S = {} THEN 0
    ELSE LET x == CHOOSE y \in S : TRUE IN f[x] + SumOver(f, S \ {x})

InFlight == SumOver(pending, Tasks)

Ran(op, by, ret) == [op |-> op, by |-> by, ret |-> ret]

ChannelIds == 1..MaxChannels
NoChannel == [st |-> "Unbuilt", retries |-> 0, delay |-> None]

InitialState ==
    [status |-> "idle",
     progress |-> [completed |-> 0, total |-> 0, percent |-> 0],
     bots |-> << >>, matchHistory |-> << >>, currentMatch |-> None,
     startTimeUtc |-> None, endTimeUtc |-> None,
     elapsed |-> [fmt |-> "", a |-> 0, b |-> 0],
     connectionState |-> "disconnected", errorMessage |-> None]

Init ==
    /\ state = InitialState
    /\ connection = 0
    /\ channels = [c \in ChannelIds |-> NoChannel]
    /\ countdownInterval = TRUE
    /\ now = 0
    /\ pending = [t \in Tasks |-> 0]
    /\ last = Ran("constructor", "", "")

---------------------------------------------------------------------------
(* Connection manager *)

onreconnecting(s, error) ==
    [s EXCEPT !.connectionState = "reconnecting",
              !.errorMessage = Some(IF IsNone(error) \/ Get(error) = ""
                                    THEN Msg("Connection lost. Reconnecting...", "")
                                    ELSE Msg("", Get(error)))]

onreconnectedMutant(s) == [s EXCEPT !.connectionState = "connected"]

onreconnected(s) == [s EXCEPT !.connectionState = "connected", !.errorMessage = None]

onclose(s, error) ==
    [s EXCEPT !.connectionState = "disconnected",
              !.errorMessage = IF IsSome(error)
                               THEN Some(Msg("Connection closed: ", Get(error))) ELSE @]

connectFailed(s, err) ==
    [s EXCEPT !.connectionState = "disconnected",
              !.errorMessage = Some(Msg("Failed to connect: ", err))]

\* A closed HubConnection that this.connection no longer refers to can neither
\* call back nor be started again: it is dropped.
Collect(ch, conn) ==
    [c \in ChannelIds |->
        IF c # conn /\ ch[c].st = "Disconnected" THEN NoChannel ELSE ch[c]]

\* A HubConnection that can never call back again may give its id to a new one.
FreeChannels == {c \in ChannelIds : channels[c].st \in {"Unbuilt", "Disconnected"}}

IsConnected == connection # 0 /\ channels[connection].st = "Connected"

connectMutant ==
    /\ FreeChannels # {}
    /\ LET c == CHOOSE c \in FreeChannels : \A d \in FreeChannels : c <= d
       IN  /\ channels' = Collect([channels EXCEPT ![c] =
                             [st |-> "Connecting", retries |-> 0, delay |-> None]], c)
           /\ connection' = c
    /\ state' = [state EXCEPT !.connectionState = "connecting", !.errorMessage = None]
    /\ last' = Ran("connect", "", "")
    /\ UNCHANGED <<countdownInterval, now, pending>>

\* connect(), to its first await (connection.start())
connect ==
    \/ /\ IsConnected
       /\ last' = Ran("connect:noop", "", "")
       /\ UNCHANGED <<state, connection, channels, countdownInterval, now, pending>>
    \/ /\ ~IsConnected
       /\ FreeChannels # {}
       /\ LET c == CHOOSE c \in FreeChannels : \A d \in FreeChannels : c <= d
          IN  /\ channels' = Collect([channels EXCEPT ![c] =
                                [st |-> "Connecting", retries |-> 0, delay |-> None]], c)
              /\ connection' = c
       /\ state' = [state EXCEPT !.connectionState = "connecting", !.errorMessage = None]
       /\ last' = Ran("connect", "", "")
       /\ UNCHANGED <<countdownInterval, now, pending>>

\* connection.start() resolved: the rest of connect()'s try block, to fetchState's await
StartSucceeds(c) ==
    /\ channels[c].st = "Connecting"
    /\ InFlight < MaxPending
    /\ channels' = [channels EXCEPT ![c].st = "Connected"]
    /\ state' = [state EXCEPT !.connectionState = "connected"]
    /\ pending' = [pending EXCEPT ![FetchTask("connection")] = @ + 1]
    /\ last' = Ran("connect:started", "", "")
    /\ UNCHANGED <<connection, countdownInterval, now>>

\* connection.start() rejected: connect()'s catch block
StartFails(c, err) ==
    /\ channels[c].st = "Connecting"
    /\ channels' = Collect([channels EXCEPT ![c].st = "Disconnected"], connection)
    /\ state' = connectFailed(state, err)
    /\ last' = Ran("connect:failed", "", "")
    /\ UNCHANGED <<connection, countdownInterval, now, pending>>

\* The transport of a connected channel is lost: the policy is asked for the
\* first delay and onreconnecting runs (or onclose, when the policy gives none).
ConnectionLost(c, error) ==
    /\ channels[c].st = "Connected"
    /\ LET d == nextRetryDelayInMilliseconds(0)
       IN  IF IsNone(d)
           THEN /\ channels' = Collect([channels EXCEPT ![c].st = "Disconnected"],
                                        connection)
                /\ state' = onclose(state, error)
                /\ last' = Ran("onclose", "", "")
           ELSE /\ channels' = [channels EXCEPT ![c] =
                                  [st |-> "Reconnecting", retries |-> 0, delay |-> d]]
                /\ state' = onreconnecting(state, error)
                /\ last' = Ran("onreconnecting", "", "")
    /\ UNCHANGED <<connection, countdownInterval, now, pending>>

\* The delay ran out and the attempt to start again failed: the policy is asked
\* again, with the attempts made so far; no delay closes the channel (onclose).
ReconnectAttemptFails(c, closeError) ==
    /\ channels[c].st = "Reconnecting"
    /\ LET n == channels[c].retries + 1
           d == nextRetryDelayInMilliseconds(n)
       IN  IF IsNone(d)
           THEN /\ channels' = Collect([channels EXCEPT ![c] =
                                  [st |-> "Disconnected", retries |-> n, delay |-> None]],
                                        connection)
                /\ state' = onclose(state, closeError)
                /\ last' = Ran("onclose:exhausted", "", "")
           ELSE /\ channels' = [channels EXCEPT ![c] =
                                  [st |-> "Reconnecting", retries |-> n, delay |-> d]]
                /\ state' = state
                /\ last' = Ran("reconnect:retry", "", "")
    /\ UNCHANGED <<connection, countdownInterval, now, pending>>

\* The delay ran out and the attempt succeeded: onreconnected, to fetchState's await
ReconnectAttemptSucceeds(c) ==
    /\ channels[c].st = "Reconnecting"
    /\ InFlight < MaxPending
    /\ channels' = [channels EXCEPT ![c] =
                      [st |-> "Connected", retries |-> 0, delay |-> None]]
    /\ state' = onreconnected(state)
    /\ pending' = [pending EXCEPT ![FetchTask("connection")] = @ + 1]
    /\ last' = Ran("onreconnected", "", "")
    /\ UNCHANGED <<connection, countdownInterval, now>>

disconnectMutant ==
    /\ connection' = 0
    /\ IF connection = 0
       THEN /\ state' = [state EXCEPT !.connectionState = "disconnected"]
            /\ UNCHANGED channels
       ELSE LET st == channels[connection].st
                s1 == CASE st \in {"Connected", "Reconnecting"} -> onclose(state, None)
                        [] st = "Connecting" -> connectFailed(state, "stopped")
                        [] OTHER -> state
            IN  /\ state' = [s1 EXCEPT !.connectionState = "disconnected"]
                /\ channels' = [channels EXCEPT ![connection] = NoChannel]
    /\ last' = Ran("disconnect", "", "")
    /\ UNCHANGED <<countdownInterval, now, pending>>

\* disconnect(): clearInterval, connection.stop() with the callbacks stop() runs
\* (onclose of an open channel, the catch block of a connect() still awaiting
\* start()), then connection = null and the status.
disconnect ==
    /\ countdownInterval' = FALSE
    /\ connection' = 0
    /\ IF connection = 0
       THEN /\ state' = [state EXCEPT !.connectionState = "disconnected"]
            /\ UNCHANGED channels
       ELSE LET st == channels[connection].st
                s1 == CASE st \in {"Connected", "Reconnecting"} -> onclose(state, None)
                        [] st = "Connecting" -> connectFailed(state, "stopped")
                        [] OTHER -> state
            IN  /\ state' = [s1 EXCEPT !.connectionState = "disconnected"]
                /\ channels' = [channels EXCEPT ![connection] = NoChannel]
    /\ last' = Ran("disconnect", "", "")
    /\ UNCHANGED <<now, pending>>

---------------------------------------------------------------------------
(* Snapshot reconciler: fetchState() was called (pending holds it); here   *)
(* its awaits resolve.                                                     *)

\* A command that awaited this fetchState returns true whatever the fetch did.
ReturnOf(by) == IF by \in Commands THEN "true" ELSE ""

\* response.ok and the JSON parsed: every assignment of the try block, in one turn
FetchSucceeds(by, data) ==
    /\ pending[FetchTask(by)] > 0
    /\ pending' = [pending EXCEPT ![FetchTask(by)] = @ - 1]
    /\ state' = ApplySnapshot(state, data)
    /\ last' = Ran("fetchState:ok", by, ReturnOf(by))
    /\ UNCHANGED <<connection, channels, countdownInterval, now>>

FetchFailsMutant(by) ==
    /\ pending[FetchTask(by)] > 0
    /\ pending' = [pending EXCEPT ![FetchTask(by)] = @ - 1]
    /\ state' = [state EXCEPT !.errorMessage = Some(Msg("Failed to fetch", ""))]
    /\ last' = Ran("fetchState:failed", by, ReturnOf(by))
    /\ UNCHANGED <<connection, channels, countdownInterval, now>>

\* fetch rejected, or the response was not ok: the catch block logs
FetchFails(by) ==
    /\ pending[FetchTask(by)] > 0
    /\ pending' = [pending EXCEPT ![FetchTask(by)] = @ - 1]
    /\ state' = state
    /\ last' = Ran("fetchState:failed", by, ReturnOf(by))
    /\ UNCHANGED <<connection, channels, countdownInterval, now>>

---------------------------------------------------------------------------
(* Command dispatcher *)

FailedPrefix(cmd) ==
    CASE cmd = "startTournament" -> "Failed to start"
      [] cmd = "pauseTournament" -> "Failed to pause"
      [] cmd = "resumeTournament" -> "Failed to resume"

\* startTournament / pauseTournament / resumeTournament, to the await of the POST
Command(cmd) ==
    /\ InFlight < MaxPending
    /\ pending' = [pending EXCEPT ![PostTask(cmd)] = @ + 1]
    /\ last' = Ran("command", cmd, "")
    /\ UNCHANGED <<state, connection, channels, countdownInterval, now>>

\* The POST was answered ok: fetchState() is called and awaited
PostOk(cmd) ==
    /\ pending[PostTask(cmd)] > 0
    /\ pending' = [pending EXCEPT ![PostTask(cmd)] = @ - 1, ![FetchTask(cmd)] = @ + 1]
    /\ last' = Ran("post:ok", cmd, "")
    /\ UNCHANGED <<state, connection, channels, countdownInterval, now>>

\* What a not-ok answer does to the state.  body.parses: response.json() resolves;
\* body.message: the message field of the parsed body.
NotOkState(s, cmd, body) ==
    IF cmd = "startTournament"
    THEN IF body.parses
         THEN [s EXCEPT !.errorMessage =
                 Some(IF IsNone(body.message) \/ Get(body.message) = ""
                      THEN Msg(FailedPrefix(cmd), "")
                      ELSE Msg("", Get(body.message)))]
         ELSE [s EXCEPT !.errorMessage = Some(Msg(FailedPrefix(cmd), "json"))]
    ELSE s

\* The POST was answered not ok: the command returns false
PostNotOk(cmd, body) ==
    /\ pending[PostTask(cmd)] > 0
    /\ pending' = [pending EXCEPT ![PostTask(cmd)] = @ - 1]
    /\ state' = NotOkState(state, cmd, body)
    /\ last' = Ran("post:notok", cmd, "false")
    /\ UNCHANGED <<connection, channels, countdownInterval, now>>

\* fetch rejected (network): the catch block, the command returns false
PostThrows(cmd, err) ==
    /\ pending[PostTask(cmd)] > 0
    /\ pending' = [pending EXCEPT ![PostTask(cmd)] = @ - 1]
    /\ state' = [state EXCEPT !.errorMessage = Some(Msg(FailedPrefix(cmd), err))]
    /\ last' = Ran("post:threw", cmd, "false")
    /\ UNCHANGED <<connection, channels, countdownInterval, now>>

---------------------------------------------------------------------------
(* Push events: the handlers setupEventHandlers registers on a channel run *)
(* when that channel, connected, delivers the event.                       *)

Pushed(c, s, op) ==
    /\ channels[c].st = "Connected"
    /\ state' = s
    /\ last' = Ran(op, "", "")
    /\ UNCHANGED <<connection, channels, countdownInterval, now, pending>>

OnGameStarted(c, gameId, redBot, blueBot, redDiff, blueDiff) ==
    Pushed(c, GameStarted(state, now, gameId, redBot, blueBot, redDiff, blueDiff),
           "OnGameStarted")

OnMovePlayed(c, moveEvent) == Pushed(c, MovePlayed(state, now, moveEvent), "OnMovePlayed")

OnGameFinished(c, finished) == Pushed(c, GameFinished(state, finished), "OnGameFinished")

OnTournamentProgress(c, completed, total, percent) ==
    Pushed(c, TournamentProgress(state, completed, total, percent), "OnTournamentProgress")

OnTournamentCompleted(c, finalStandings, totalGames, durationMs) ==
    Pushed(c, TournamentCompleted(state, now, finalStandings, totalGames, durationMs),
           "OnTournamentCompleted")

OnTournamentStatusChanged(c, status) ==
    Pushed(c, TournamentStatusChanged(state, now, status), "OnTournamentStatusChanged")

OnELOUpdated(c, bots) == Pushed(c, ELOUpdated(state, bots), "OnELOUpdated")

---------------------------------------------------------------------------
(* Time *)

\* The countdown timer set by the constructor fires
Tick ==
    /\ countdownInterval
    /\ state' = updateCountdown(state, now)
    /\ last' = Ran("updateCountdown", "", "")
    /\ UNCHANGED <<connection, channels, countdownInterval, now, pending>>

\* Wall-clock time passes
AdvanceClock ==
    /\ now < MaxNow
    /\ now' = now + 1
    /\ UNCHANGED <<state, connection, channels, countdownInterval, pending, last>>

---------------------------------------------------------------------------
(* What the service and the transport may send *)

botA == [name |-> "A", elo |-> BaseElo]
botB == [name |-> "B", elo |-> BaseElo + 50]
botC == [name |-> "C", elo |-> BaseElo]

ErrorTexts == {"E"}
MaybeErrors == {None, Some(""), Some("E")}
Bodies == {[parses |-> TRUE, message |-> None], [parses |-> TRUE, message |-> Some("M")],
           [parses |-> FALSE, message |-> None]}

MoveEventOf(n, red, blue, x, y, player, stats) ==
    [moveNumber |-> n, redTimeRemainingMs |-> red, blueTimeRemainingMs |-> blue,
     x |-> x, y |-> y, player |-> player,
     depthAchieved |-> stats, nodesSearched |-> stats, nodesPerSecond |-> stats,
     tableHitRate |-> stats, vcfDepthAchieved |-> stats, vcfNodesSearched |-> stats,
     ponderingActive |-> IF IsNone(stats) THEN None ELSE Some(TRUE)]

FinishedOf(winner, totalMoves, timeout) ==
    [winner |-> winner,
     loser |-> CASE winner = "red" -> "blue" [] winner = "blue" -> "red" [] OTHER -> "none",
     totalMoves |-> totalMoves, durationMs |-> 5000,
     isDraw |-> (winner = "none"), endedByTimeout |-> timeout]

\* A match of the service's state as GET /state reports it
ServiceMatch(n, board, red, blue, stamp) ==
    [gameId |-> "g0", redBotName |-> "A", blueBotName |-> "B",
     redDifficulty |-> Num(3), blueDifficulty |-> Str("hard"),
     moveNumber |-> n, board |-> board,
     redTimeRemainingMs |-> red, blueTimeRemainingMs |-> blue,
     initialTimeSeconds |-> InitialTimeSeconds, incrementSeconds |-> IncrementSeconds,
     lastMove |-> None, lastMoveTimestamp |-> stamp, lastMoveStats |-> None]

\* A result of the service's history as GET /state reports it
ServiceResult(i) ==
    [winner |-> "blue", loser |-> "red", totalMoves |-> i, durationMs |-> 5000,
     winnerDifficulty |-> Num(5), loserDifficulty |-> Num(0),
     isDraw |-> FALSE, endedByTimeout |-> FALSE,
     winnerBotName |-> "B", loserBotName |-> "A"]

ServiceHistory(n) == [i \in 1..n |-> ServiceResult(i)]

SnapshotOf(status, bots, history, match) ==
    [status |-> status, completedGames |-> Len(OrEmpty(history)), totalGames |-> 2,
     progressPercent |-> 50 * Min(Len(OrEmpty(history)), 2),
     bots |-> bots, matchHistory |-> history, currentMatch |-> match,
     startTimeUtc |-> IF status = Num(0) THEN None ELSE Some(0),
     endTimeUtc |-> IF status = Num(3) THEN Some(1) ELSE None]

IdleSnapshot == SnapshotOf(Num(0), None, None, None)
RunningSnapshot ==
    SnapshotOf(Num(1), Some(<<botA, botB>>), Some(ServiceHistory(1)),
               Some(ServiceMatch(1, <<[x |-> 0, y |-> 0, player |-> "red"]>>,
                                 InitialTimeMs - 1, InitialTimeMs, 0)))
CompletedSnapshot == SnapshotOf(Num(3), Some(<<botB>>), Some(ServiceHistory(2)), None)

---------------------------------------------------------------------------
(* The store with every operation, on the smallest inputs.  Its state space  *)
(* is the product of every component's; the scenarios below are what TLC   *)
(* explores: each keeps the operations of one component, whole, and widens *)
(* the inputs that component reads.                                        *)

Next ==
    \/ connect
    \/ disconnect
    \/ \E c \in ChannelIds : StartSucceeds(c)
    \/ \E c \in ChannelIds, err \in ErrorTexts : StartFails(c, err)
    \/ \E c \in ChannelIds, error \in MaybeErrors : ConnectionLost(c, error)
    \/ \E c \in ChannelIds, error \in {None, Some("E")} : ReconnectAttemptFails(c, error)
    \/ \E c \in ChannelIds : ReconnectAttemptSucceeds(c)
    \/ \E by \in FetchOrigins, data \in {IdleSnapshot, RunningSnapshot} :
            FetchSucceeds(by, data)
    \/ \E by \in FetchOrigins : FetchFails(by)
    \/ \E cmd \in Commands : Command(cmd)
    \/ \E cmd \in Commands : PostOk(cmd)
    \/ \E cmd \in Commands, body \in Bodies : PostNotOk(cmd, body)
    \/ \E cmd \in Commands, err \in ErrorTexts : PostThrows(cmd, err)
    \/ \E c \in ChannelIds : OnGameStarted(c, "g1", "A", "B", Num(3), Num(5))
    \/ \E c \in ChannelIds :
            OnMovePlayed(c, MoveEventOf(1, InitialTimeMs - 1, InitialTimeMs, 1, 0, "red", None))
    \/ \E c \in ChannelIds : OnGameFinished(c, FinishedOf("red", 1, FALSE))
    \/ \E c \in ChannelIds : OnTournamentProgress(c, 1, 2, 50)
    \/ \E c \in ChannelIds : OnTournamentCompleted(c, <<botA, botB>>, 2, 5000)
    \/ \E c \in ChannelIds, status \in {Num(1), Num(2)} : OnTournamentStatusChanged(c, status)
    \/ \E c \in ChannelIds : OnELOUpdated(c, <<botA, botB>>)
    \/ Tick
    \/ AdvanceClock

Spec == Init /\ [][Next]_vars

---------------------------------------------------------------------------
(* Scenario: the connection manager.  connect, disconnect, the transport's *)
(* start / loss / reconnect outcomes, and the snapshot fetches they issue. *)

NextConn ==
    \/ connect
    \/ disconnect
    \/ \E c \in ChannelIds : StartSucceeds(c)
    \/ \E c \in ChannelIds, err \in ErrorTexts : StartFails(c, err)
    \/ \E c \in ChannelIds, error \in MaybeErrors : ConnectionLost(c, error)
    \/ \E c \in ChannelIds, error \in {None, Some("E")} : ReconnectAttemptFails(c, error)
    \/ \E c \in ChannelIds : ReconnectAttemptSucceeds(c)
    \/ FetchSucceeds("connection", RunningSnapshot)
    \/ FetchFails("connection")

SpecConn == Init /\ [][NextConn]_vars

---------------------------------------------------------------------------
(* Claims on the connection manager (SpecConn) *)

\* C5: when a channel's reconnection attempts are exhausted, at most
\* maxReconnectAttempts attempts were made and the store is left "disconnected"
\* with a non-null error message.
C5_ExhaustedEndsDisconnectedWithError ==
    last.op = "onclose:exhausted" =>
        /\ \A c \in ChannelIds : channels[c].retries <= maxReconnectAttempts
        /\ state.connectionState = "disconnected"
        /\ IsSome(state.errorMessage)

BackoffTable == <<1000, 2000, 4000, 8000, 10000>>
ProbedRetries == 3

\* C6: a channel waiting for its attempt number n+1 (n attempts made) waits
\* min(1000 * 2^n, 10000) ms: 1000, 2000, 4000, 8000, 10000 for n = 0..4; the
\* policy gives no delay from n = 5 on, so a channel closed by the policy made
\* exactly 5 attempts.
C6_BackoffDelays ==
    /\ \A c \in ChannelIds :
          /\ channels[c].st = "Reconnecting" =>
                /\ channels[c].retries \in 0..4
                /\ channels[c].delay = Some(BackoffTable[channels[c].retries + 1])
                /\ channels[c].delay =
                      Some(Min(1000 * Pow2(channels[c].retries), 10000))
          /\ (channels[c].st = "Disconnected" /\ channels[c].retries # 0) =>
                channels[c].retries = 5
    /\ \A n \in 5..(5 + ProbedRetries) : IsNone(nextRetryDelayInMilliseconds(n))

\* C6 witness: a channel that failed four attempts waits 10000 ms for the fifth
C6_Witness ==
    \E c \in ChannelIds :
        /\ channels[c].st = "Reconnecting"
        /\ channels[c].retries = 4
        /\ channels[c].delay = Some(10000)

\* C7: a snapshot fetch that fails (rejected, or answered not ok) leaves every
\* field of this.state as it was.
C7_FailedFetchKeepsState ==
    [][\A by \in FetchOrigins : FetchFails(by) => state' = state]_vars

\* C7 witness: a fetch failed on a state an earlier snapshot and the connection
\* manager had filled
C7_Witness ==
    /\ last.op = "fetchState:failed"
    /\ state.status = "running"
    /\ IsSome(state.currentMatch)
    /\ Len(state.matchHistory) > 0
    /\ state.connectionState = "reconnecting"
    /\ IsSome(state.errorMessage)

\* C10: connect() on a connected channel changes nothing; otherwise it sets the
\* status "connecting" and the error message null (and builds a channel, which
\* becomes this.connection); when start() resolves the status is "connected" and
\* one more snapshot fetch is in flight; when start() rejects the status is
\* "disconnected" and the error message is non-null.
C10_Connect ==
    [][ /\ connect =>
              IF IsConnected
              THEN UNCHANGED <<state, connection, channels, pending, countdownInterval, now>>
              ELSE /\ state'.connectionState = "connecting"
                   /\ IsNone(state'.errorMessage)
                   /\ connection' # 0
                   /\ channels'[connection'].st = "Connecting"
        /\ \A c \in ChannelIds :
              StartSucceeds(c) =>
                 /\ state'.connectionState = "connected"
                 /\ channels'[c].st = "Connected"
                 /\ pending'[FetchTask("connection")] = pending[FetchTask("connection")] + 1
        /\ \A c \in ChannelIds, err \in ErrorTexts :
              StartFails(c, err) =>
                 /\ state'.connectionState = "disconnected"
                 /\ IsSome(state'.errorMessage)
      ]_vars

\* C10 witness: start() resolved: the store is connected on this.connection and
\* the fetch is in flight
C10_Witness ==
    /\ last.op = "connect:started"
    /\ state.connectionState = "connected"
    /\ pending[FetchTask("connection")] > 0
    /\ IsConnected

\* C11: when a connected channel starts reconnecting the status becomes
\* "reconnecting" and the error message non-null; when a reconnection attempt
\* succeeds the status becomes "connected", the error message null and one more
\* snapshot fetch is in flight.
C11_ReconnectResyncs ==
    [][ /\ \A c \in ChannelIds, error \in MaybeErrors :
              ConnectionLost(c, error) =>
                 /\ state'.connectionState = "reconnecting"
                 /\ IsSome(state'.errorMessage)
        /\ \A c \in ChannelIds :
              ReconnectAttemptSucceeds(c) =>
                 /\ state'.connectionState = "connected"
                 /\ IsNone(state'.errorMessage)
                 /\ pending'[FetchTask("connection")] = pending[FetchTask("connection")] + 1
      ]_vars

\* C11 witness: the lost channel of this.connection reconnected: the store is
\* connected, shows no error and the resync fetch is in flight
C11_Witness ==
    /\ last.op = "onreconnected"
    /\ state.connectionState = "connected"
    /\ IsNone(state.errorMessage)
    /\ pending[FetchTask("connection")] > 0
    /\ IsConnected

\* C19: at most one channel is connected (its handlers feeding the store) at
\* any time, so an event the service pushes is applied at most once.
C19_AtMostOneFeedingChannel ==
    Cardinality({c \in ChannelIds : channels[c].st = "Connected"}) <= 1

---------------------------------------------------------------------------
(* Scenario: the board of the live match.  Moves at every coordinate by    *)
(* either player, replayed in any order, on a match a match-started event  *)
(* or a snapshot installed.                                                *)

Xs == 0..(MaxBoard - 1)
Ys == {0}
Players == {"red", "blue"}

BoardMoves ==
    {MoveEventOf(1, InitialTimeMs - 1, InitialTimeMs, x, y, player, None) :
        x \in Xs, y \in Ys, player \in Players}

NextBoard ==
    \/ connect
    \/ \E c \in ChannelIds : StartSucceeds(c)
    \/ \E data \in {IdleSnapshot, RunningSnapshot} : FetchSucceeds("connection", data)
    \/ FetchFails("connection")
    \/ \E c \in ChannelIds : OnGameStarted(c, "g1", "A", "B", Num(3), Num(5))
    \/ \E c \in ChannelIds, moveEvent \in BoardMoves : OnMovePlayed(c, moveEvent)

SpecBoard == Init /\ [][NextBoard]_vars

CellsAt(board, x, y) ==
    LET At(b) == b.x = x /\ b.y = y
    IN  SelectSeq(board, At)

NoDuplicateCells(board) ==
    \A i, j \in 1..Len(board) :
        i # j => (board[i].x # board[j].x \/ board[i].y # board[j].y)

\* C1: the board of the live match never holds two entries for one coordinate,
\* and a move-played event leaves exactly one entry at its coordinate, carrying
\* its player, and the entries of every other coordinate as they were (so each
\* coordinate carries the player of the last move played there).
C1_BoardLastWriteWins ==
    [][ /\ IsSome(state'.currentMatch) => NoDuplicateCells(Get(state'.currentMatch).board)
        /\ \A c \in ChannelIds, moveEvent \in BoardMoves :
              (OnMovePlayed(c, moveEvent) /\ IsSome(state.currentMatch)) =>
                 LET before == Get(state.currentMatch).board
                     after == Get(state'.currentMatch).board
                 IN  /\ CellsAt(after, moveEvent.x, moveEvent.y) =
                           <<[x |-> moveEvent.x, y |-> moveEvent.y,
                              player |-> moveEvent.player]>>
                     /\ \A x \in Xs, y \in Ys :
                           (x # moveEvent.x \/ y # moveEvent.y) =>
                              CellsAt(after, x, y) = CellsAt(before, x, y)
      ]_vars

\* C1 witness: the match the snapshot installed (red at (0,0)) now holds blue at
\* (0,0), once, and a second cell: a move replaced the entry at its coordinate
C1_Witness ==
    /\ last.op = "OnMovePlayed"
    /\ IsSome(state.currentMatch)
    /\ Get(state.currentMatch).gameId = "g0"
    /\ Len(Get(state.currentMatch).board) = 2
    /\ CellsAt(Get(state.currentMatch).board, 0, 0) = <<[x |-> 0, y |-> 0, player |-> "blue"]>>

---------------------------------------------------------------------------
(* Scenario: the clocks of the live match.  Moves carrying the service's   *)
(* remaining times, the countdown timer and the passing of time.           *)

ClockMoves ==
    {MoveEventOf(1, 2, InitialTimeMs, 0, 0, "red", None),
     MoveEventOf(2, 2, 1, 1, 0, "blue", Some(7)),
     MoveEventOf(1, -1, InitialTimeMs, 0, 0, "red", None)}

NextClock ==
    \/ connect
    \/ \E c \in ChannelIds : StartSucceeds(c)
    \/ \E data \in {IdleSnapshot, RunningSnapshot} : FetchSucceeds("connection", data)
    \/ FetchFails("connection")
    \/ \E c \in ChannelIds : OnGameStarted(c, "g1", "A", "B", Num(3), Num(5))
    \/ \E c \in ChannelIds, status \in {Num(1), Num(2)} : OnTournamentStatusChanged(c, status)
    \/ \E c \in ChannelIds, moveEvent \in ClockMoves : OnMovePlayed(c, moveEvent)
    \/ Tick
    \/ AdvanceClock

SpecClock == Init /\ [][NextClock]_vars

\* C2: the remaining times of the live match are never negative.
C2_RemainingTimeNonNegative ==
    IsSome(state.currentMatch) =>
        /\ Get(state.currentMatch).redTimeRemainingMs >= 0
        /\ Get(state.currentMatch).blueTimeRemainingMs >= 0

\* C16: a tick leaves the whole state as it was unless a live match exists and
\* the status is "running"; when it acts, the side to move (red on an even move
\* number, blue on an odd one) is left with its remaining time less the time
\* elapsed since the stored timestamp, floored at zero, the stored timestamp
\* becomes now, and the other side's time, the board, the move number and
\* everything else stay as they were.
C16_TickFrame ==
    [][ Tick =>
          IF IsNone(state.currentMatch) \/ state.status # "running"
          THEN state' = state
          ELSE LET m == Get(state.currentMatch)
                   m2 == Get(state'.currentMatch)
                   elapsed == now - m.lastMoveTimestamp
               IN  /\ IsSome(state'.currentMatch)
                   /\ m.moveNumber % 2 = 0 =>
                         /\ m2.redTimeRemainingMs = Max(0, m.redTimeRemainingMs - elapsed)
                         /\ m2.blueTimeRemainingMs = m.blueTimeRemainingMs
                   /\ m.moveNumber % 2 # 0 =>
                         /\ m2.blueTimeRemainingMs = Max(0, m.blueTimeRemainingMs - elapsed)
                         /\ m2.redTimeRemainingMs = m.redTimeRemainingMs
                   /\ m2.lastMoveTimestamp = now
                   /\ [m2 EXCEPT !.redTimeRemainingMs = m.redTimeRemainingMs,
                                 !.blueTimeRemainingMs = m.blueTimeRemainingMs,
                                 !.lastMoveTimestamp = m.lastMoveTimestamp] = m
                   /\ [state' EXCEPT !.currentMatch = state.currentMatch] = state
      ]_vars

\* C16 witness: a tick on a running match with blue to move (move number 1),
\* one time unit after the move: blue lost it, red kept its 2 ms
C16_Witness ==
    /\ last.op = "updateCountdown"
    /\ state.status = "running"
    /\ IsSome(state.currentMatch)
    /\ Get(state.currentMatch).moveNumber = 1
    /\ Get(state.currentMatch).blueTimeRemainingMs = InitialTimeMs - 1
    /\ Get(state.currentMatch).redTimeRemainingMs = 2
    /\ Get(state.currentMatch).lastMoveTimestamp = now
    /\ Len(Get(state.currentMatch).board) > 0

---------------------------------------------------------------------------
(* Scenario: the match history.  Matches start and finish; snapshots carry *)
(* histories shorter and longer than the 20 results the handler keeps.     *)

HistoryFinishes == {FinishedOf("red", 1, FALSE)}

HistorySnapshots ==
    {IdleSnapshot,
     SnapshotOf(Num(1), None, Some(ServiceHistory(HistoryKept)),
                Some(ServiceMatch(0, << >>, InitialTimeMs, InitialTimeMs, 0))),
     SnapshotOf(Num(1), None, Some(ServiceHistory(ServiceHistoryLen)), None)}

NextHistory ==
    \/ connect
    \/ \E c \in ChannelIds : StartSucceeds(c)
    \/ \E data \in HistorySnapshots : FetchSucceeds("connection", data)
    \/ FetchFails("connection")
    \/ \E c \in ChannelIds : OnGameStarted(c, "g1", "A", "B", Num(3), Num(5))
    \/ \E c \in ChannelIds, finished \in HistoryFinishes : OnGameFinished(c, finished)

SpecHistory == Init /\ [][NextHistory]_vars

\* C3: a match-finished event applied to a live match puts its result at index 0,
\* moves the results kept before down by one and drops what falls beyond 20.
C3_HistoryMostRecentFirst ==
    [][ \A c \in ChannelIds, finished \in HistoryFinishes :
           (OnGameFinished(c, finished) /\ IsSome(state.currentMatch)) =>
              LET before == state.matchHistory
                  after == state'.matchHistory
                  m == Get(state.currentMatch)
              IN  /\ Len(after) = Min(Len(before) + 1, 20)
                  /\ after[1].winner = finished.winner
                  /\ after[1].totalMoves = finished.totalMoves
                  /\ after[1].winnerBotName = m.redBotName
                  /\ \A i \in 2..Len(after) : after[i] = before[i - 1]
      ]_vars

\* C3 witness: 20 results, the two newest from events, the oldest the snapshot's
\* 18th: results were shifted down and the ones beyond 20 dropped
C3_Witness ==
    /\ last.op = "OnGameFinished"
    /\ Len(state.matchHistory) = 20
    /\ state.matchHistory[1].winner = "red"
    /\ state.matchHistory[2].winner = "red"
    /\ state.matchHistory[3] = SnapshotResult(ServiceResult(1))
    /\ state.matchHistory[20] = SnapshotResult(ServiceResult(18))

\* C9: a match-finished event applied to a live match leaves no live match, and
\* so does a snapshot that reports none.
C9_LiveMatchEndsWithCompletion ==
    [][ /\ \A c \in ChannelIds, finished \in HistoryFinishes :
              (OnGameFinished(c, finished) /\ IsSome(state.currentMatch)) =>
                 IsNone(state'.currentMatch)
        /\ \A data \in HistorySnapshots :
              (FetchSucceeds("connection", data) /\ IsNone(data.currentMatch)) =>
                 IsNone(state'.currentMatch)
      ]_vars

---------------------------------------------------------------------------
(* Scenario: the roster.  Ratings updates, final standings and snapshots   *)
(* carry the bots in any order, equal ratings included.                    *)

BotPool == {botA, botB, botC}

Rosters ==
    UNION {{r \in [1..n -> BotPool] : \A i, j \in 1..n : i # j => r[i] # r[j]} :
              n \in 0..MaxBots}

RosterSnapshots ==
    {IdleSnapshot} \cup {SnapshotOf(Num(1), Some(r), None, None) : r \in Rosters}

NextRoster ==
    \/ connect
    \/ \E c \in ChannelIds : StartSucceeds(c)
    \/ \E data \in RosterSnapshots : FetchSucceeds("connection", data)
    \/ FetchFails("connection")
    \/ \E c \in ChannelIds, bots \in Rosters : OnELOUpdated(c, bots)
    \/ \E c \in ChannelIds, bots \in Rosters : OnTournamentCompleted(c, bots, 2, 5000)

SpecRoster == Init /\ [][NextRoster]_vars

\* C4: right after a ratings-updated event and right after a snapshot fetch that
\* succeeded, each bot of the roster is rated at least as high as the next one.
C4_RosterSortedAfterUpdate ==
    last.op \in {"OnELOUpdated", "fetchState:ok"} =>
        \A i \in 1..(Len(state.bots) - 1) : state.bots[i].elo >= state.bots[i + 1].elo

\* C4 witness: a ratings update, after final standings had replaced the roster,
\* left two bots with the higher-rated one first
C4_Witness ==
    /\ last.op = "OnELOUpdated"
    /\ state.status = "completed"
    /\ Len(state.bots) = 2
    /\ state.bots[1].elo > state.bots[2].elo

\* C18: in every reachable state each bot of the roster is rated at least as
\* high as the next one, after a tournament-completed event too.
C18_RosterAlwaysSorted ==
    \A i \in 1..(Len(state.bots) - 1) : state.bots[i].elo >= state.bots[i + 1].elo

---------------------------------------------------------------------------
(* Scenario: the command dispatcher.  The three commands, every answer of  *)
(* the service to the POST and to the snapshot fetch that follows.         *)

NextCommands ==
    \/ \E cmd \in Commands : Command(cmd)
    \/ \E cmd \in Commands : PostOk(cmd)
    \/ \E cmd \in Commands, body \in Bodies : PostNotOk(cmd, body)
    \/ \E cmd \in Commands, err \in ErrorTexts : PostThrows(cmd, err)
    \/ \E cmd \in Commands, data \in {IdleSnapshot, RunningSnapshot} : FetchSucceeds(cmd, data)
    \/ \E cmd \in Commands : FetchFails(cmd)

SpecCommands == Init /\ [][NextCommands]_vars

\* C8: a command answered not ok returns false, leaves a non-null error message
\* and issues no snapshot fetch; a command answered ok issues a snapshot fetch
\* and returns true once it is done.
C8_CommandOutcome ==
    [][ \A cmd \in Commands :
          /\ \A body \in Bodies :
                PostNotOk(cmd, body) =>
                   /\ last'.ret = "false"
                   /\ IsSome(state'.errorMessage)
                   /\ pending'[FetchTask(cmd)] = pending[FetchTask(cmd)]
          /\ PostOk(cmd) => pending'[FetchTask(cmd)] = pending[FetchTask(cmd)] + 1
          /\ (FetchFails(cmd) \/ \E data \in {IdleSnapshot, RunningSnapshot} :
                                    FetchSucceeds(cmd, data)) => last'.ret = "true"
      ]_vars

---------------------------------------------------------------------------
(* Scenario: the session.  The store connects, loses and regains its       *)
(* channel and disconnects while a match runs and the countdown timer      *)
(* fires.                                                                  *)

NextSession ==
    \/ connect
    \/ disconnect
    \/ \E c \in ChannelIds : StartSucceeds(c)
    \/ \E c \in ChannelIds, err \in ErrorTexts : StartFails(c, err)
    \/ \E c \in ChannelIds : ConnectionLost(c, None)
    \/ \E c \in ChannelIds : ReconnectAttemptSucceeds(c)
    \/ FetchSucceeds("connection", RunningSnapshot)
    \/ FetchFails("connection")
    \/ Tick
    \/ AdvanceClock

SpecSession == Init /\ [][NextSession]_vars

LiveChannelStates == {"Connecting", "Connected", "Reconnecting"}

\* C12: disconnect(), from any connection status, leaves the status
\* "disconnected", this.connection null with the channel it referred to closed,
\* and the countdown timer cleared; a disconnect() that follows a disconnect()
\* changes nothing; once the timer is cleared it stays cleared and no tick runs,
\* so no tick changes a remaining time.
C12_DisconnectIdempotent ==
    [][ /\ disconnect =>
              /\ state'.connectionState = "disconnected"
              /\ connection' = 0
              /\ ~countdownInterval'
              /\ connection # 0 => channels'[connection].st \notin LiveChannelStates
              /\ last.op = "disconnect" =>
                    UNCHANGED <<state, connection, channels, countdownInterval, now, pending>>
        /\ ~countdownInterval =>
              /\ ~countdownInterval'
              /\ ~Tick
              /\ (IsSome(state.currentMatch) /\ last'.op = "updateCountdown") =>
                    state' = state
      ]_vars

\* C12 witness: disconnect() ran on a store whose running match has time to
\* lose (the clock moved past the stored timestamp), so a tick would have acted
C12_Witness ==
    /\ last.op = "disconnect"
    /\ state.connectionState = "disconnected"
    /\ connection = 0
    /\ ~countdownInterval
    /\ state.status = "running"
    /\ IsSome(state.currentMatch)
    /\ now > Get(state.currentMatch).lastMoveTimestamp

---------------------------------------------------------------------------
(* Scenario: the results.  Matches between differently named and rated     *)
(* bots, started by an event or installed by a snapshot, finish with either*)
(* side winning or in a draw.                                              *)

ResultFinishes == {FinishedOf(winner, 1, FALSE) : winner \in {"red", "blue", "none"}}

NextResults ==
    \/ connect
    \/ \E c \in ChannelIds : StartSucceeds(c)
    \/ \E data \in {IdleSnapshot, RunningSnapshot} : FetchSucceeds("connection", data)
    \/ FetchFails("connection")
    \/ \E c \in ChannelIds : OnGameStarted(c, "g1", "A", "B", Num(3), Num(5))
    \/ \E c \in ChannelIds :
          OnMovePlayed(c, MoveEventOf(1, InitialTimeMs - 1, InitialTimeMs, 1, 0, "red", None))
    \/ \E c \in ChannelIds, finished \in ResultFinishes :
          /\ Len(state.matchHistory) < MaxResults
          /\ OnGameFinished(c, finished)

SpecResults == Init /\ [][NextResults]_vars

\* C13: a match-finished event applied to a live match puts at index 0 a result
\* whose winner and loser bot names and difficulties are the live match's: the
\* red bot's as winner and the blue bot's as loser when the event reports "red",
\* the blue bot's as winner and the red bot's as loser when it reports "blue".
C13_WinnerLoserFromLiveMatch ==
    [][ \A c \in ChannelIds, finished \in ResultFinishes :
           (OnGameFinished(c, finished) /\ IsSome(state.currentMatch)) =>
              LET m == Get(state.currentMatch)
                  e == state'.matchHistory[1]
              IN  /\ e.winner = finished.winner
                  /\ finished.winner = "red" =>
                        /\ e.winnerBotName = m.redBotName
                        /\ e.loserBotName = m.blueBotName
                        /\ e.winnerDifficulty = m.redDifficulty
                        /\ e.loserDifficulty = m.blueDifficulty
                  /\ finished.winner = "blue" =>
                        /\ e.winnerBotName = m.blueBotName
                        /\ e.loserBotName = m.redBotName
                        /\ e.winnerDifficulty = m.blueDifficulty
                        /\ e.loserDifficulty = m.redDifficulty
      ]_vars

\* C13 witness: match-started("g1","A","B",3,5), one move, then a finish won by
\* red and a finish won by blue: B over A at index 0, A over B behind it
C13_Witness ==
    /\ last.op = "OnGameFinished"
    /\ IsSome(state.currentMatch)
    /\ Get(state.currentMatch).gameId = "g1"
    /\ Len(Get(state.currentMatch).board) = 1
    /\ Len(state.matchHistory) = 2
    /\ state.matchHistory[1].winner = "blue"
    /\ state.matchHistory[1].winnerBotName = "B"
    /\ state.matchHistory[1].loserBotName = "A"
    /\ state.matchHistory[2].winner = "red"
    /\ state.matchHistory[2].winnerBotName = "A"
    /\ state.matchHistory[2].loserBotName = "B"

---------------------------------------------------------------------------
(* Scenario: overlapping snapshot fetches.  connect() and the commands     *)
(* issue fetches that are in flight together; their responses arrive in    *)
(* any order, with push events and ticks in between.                       *)

OverlapSnapshots == {IdleSnapshot, RunningSnapshot, CompletedSnapshot}
OverlapOrigins == {"connection", "startTournament"}

NextOverlap ==
    \/ connect
    \/ \E c \in ChannelIds : StartSucceeds(c)
    \/ Command("startTournament")
    \/ PostOk("startTournament")
    \/ \E by \in OverlapOrigins, data \in OverlapSnapshots : FetchSucceeds(by, data)
    \/ \E by \in OverlapOrigins : FetchFails(by)
    \/ \E c \in ChannelIds : OnELOUpdated(c, <<botA>>)
    \/ Tick
    \/ AdvanceClock

SpecOverlap == Init /\ [][NextOverlap]_vars

\* The fields of this.state a snapshot owns
SnapshotOwned(s) ==
    [status |-> s.status, progress |-> s.progress, bots |-> s.bots,
     matchHistory |-> s.matchHistory, currentMatch |-> s.currentMatch,
     startTimeUtc |-> s.startTimeUtc, endTimeUtc |-> s.endTimeUtc]

FetchesInFlight == SumOver(pending, {FetchTask(by) : by \in FetchOrigins})

\* C14: a response applied, whatever fetches are still in flight and whatever
\* events and ticks ran since the last one, leaves in the fields a snapshot owns
\* exactly what that response alone gives (what it gives on the initial state),
\* and leaves the other fields as they were.
C14_OverlappingFetchesLastWins ==
    [][ \A by \in OverlapOrigins, data \in OverlapSnapshots :
           FetchSucceeds(by, data) =>
              /\ SnapshotOwned(state') = SnapshotOwned(ApplySnapshot(InitialState, data))
              /\ state'.connectionState = state.connectionState
              /\ state'.errorMessage = state.errorMessage
              /\ state'.elapsed = state.elapsed
      ]_vars

\* C14 witness: two fetches overlapped and the command's response was applied
\* while the connection's fetch was still in flight: the fields a snapshot owns
\* are that response's (the completed tournament)
C14_Witness ==
    /\ last.op = "fetchState:ok"
    /\ last.by = "startTournament"
    /\ FetchesInFlight = 1
    /\ SnapshotOwned(state) = SnapshotOwned(ApplySnapshot(InitialState, CompletedSnapshot))
    /\ state.connectionState = "connected"

---------------------------------------------------------------------------
(* Scenario: the normalizers.  Status-changed events and snapshots carry   *)
(* statuses and difficulties as canonical names and as integer codes,      *)
(* known and unknown.                                                      *)

StatusNames == <<"idle", "running", "paused", "completed">>
TierNames == <<"beginner", "easy", "normal", "medium", "hard", "harder", "veryHard",
               "expert", "master", "grandmaster", "legend">>

WireCodes == (-2)..MaxCode
WireStatuses == {Num(n) : n \in WireCodes} \cup {Str(StatusNames[i]) : i \in 1..4}
WireDifficulties == {Num(n) : n \in WireCodes} \cup {Str(TierNames[i]) : i \in 1..11}

\* A snapshot whose status is status and whose live match is played by a red
\* bot of difficulty diff
NormalizerSnapshot(status, diff) ==
    SnapshotOf(status, None, None,
               Some([ServiceMatch(0, << >>, InitialTimeMs, InitialTimeMs, 0)
                        EXCEPT !.redDifficulty = diff]))

NextNormalizers ==
    \/ connect
    \/ \E c \in ChannelIds : StartSucceeds(c)
    \/ \E status \in WireStatuses, diff \in WireDifficulties :
          FetchSucceeds("connection", NormalizerSnapshot(status, diff))
    \/ FetchFails("connection")
    \/ \E c \in ChannelIds, status \in WireStatuses : OnTournamentStatusChanged(c, status)

SpecNormalizers == Init /\ [][NextNormalizers]_vars

\* C15: the normalizers return a canonical name unchanged, so normalizing what
\* they returned returns it again; they map the codes 0..3 to idle, running,
\* paused, completed and 1..11 to the eleven tiers in order, and every other
\* integer to "idle" and to "beginner"; what the store holds is a canonical name
\* that normalizes to itself.
C15_Normalizers ==
    /\ \A i \in 1..4 : mapStatusFromBackend(Str(StatusNames[i])) = StatusNames[i]
    /\ \A i \in 1..11 : mapDifficultyFromBackend(Str(TierNames[i])) = TierNames[i]
    /\ \A n \in WireCodes :
          /\ mapStatusFromBackend(Num(n)) = IF n \in 0..3 THEN StatusNames[n + 1] ELSE "idle"
          /\ mapDifficultyFromBackend(Num(n)) =
                IF n \in 1..11 THEN TierNames[n] ELSE "beginner"
    /\ \A w \in WireStatuses :
          mapStatusFromBackend(Str(mapStatusFromBackend(w))) = mapStatusFromBackend(w)
    /\ \A w \in WireDifficulties :
          mapDifficultyFromBackend(Str(mapDifficultyFromBackend(w))) =
             mapDifficultyFromBackend(w)
    /\ \E i \in 1..4 : state.status = StatusNames[i]
    /\ mapStatusFromBackend(Str(state.status)) = state.status
    /\ IsSome(state.currentMatch) =>
          LET d == Get(state.currentMatch).redDifficulty
          IN  /\ d.isString
              /\ \E i \in 1..11 : d.str = TierNames[i]
              /\ mapDifficultyFromBackend(d) = d.str

\* C15 witness: a snapshot installed a match of a "legend" red bot (code 11 or
\* the name), and a status-changed event then left the status "completed"
C15_Witness ==
    /\ last.op = "OnTournamentStatusChanged"
    /\ state.status = "completed"
    /\ IsSome(state.currentMatch)
    /\ Get(state.currentMatch).redDifficulty = Str("legend")

---------------------------------------------------------------------------
(* Scenario: the tournament's status.  Status-changed events in any order  *)
(* (running, paused, running again, codes and names), the completion       *)
(* event, and time passing; no snapshot is applied.                        *)

StatusEvents == {Num(0), Num(1), Num(2), Str("running"), Str("paused")}

NextStatus ==
    \/ connect
    \/ \E c \in ChannelIds : StartSucceeds(c)
    \/ FetchFails("connection")
    \/ \E c \in ChannelIds, status \in StatusEvents : OnTournamentStatusChanged(c, status)
    \/ \E c \in ChannelIds : OnTournamentCompleted(c, <<botB, botA>>, 2, 5000)
    \/ AdvanceClock

SpecStatus == Init /\ [][NextStatus]_vars

\* C17: a status-changed event stamps the start time with now when its
\* normalized status is "running" and none is recorded, and otherwise leaves the
\* start time as it was; with no snapshot applied, a recorded start time never
\* changes, so it keeps the stamp of the first running event.
C17_StartTimeStampedOnce ==
    [][ /\ \A c \in ChannelIds, status \in StatusEvents :
              OnTournamentStatusChanged(c, status) =>
                 state'.startTimeUtc =
                    IF IsNone(state.startTimeUtc) /\ mapStatusFromBackend(status) = "running"
                    THEN Some(now) ELSE state.startTimeUtc
        /\ IsSome(state.startTimeUtc) => state'.startTimeUtc = state.startTimeUtc
      ]_vars

\* C17 witness: the tournament ran from time 1, completed at time 2, and a later
\* running event left the status "running" and the start time at 1
C17_Witness ==
    /\ last.op = "OnTournamentStatusChanged"
    /\ state.status = "running"
    /\ state.startTimeUtc = Some(1)
    /\ state.endTimeUtc = Some(2)

---------------------------------------------------------------------------
(* Scenario: the service's clock.  The live match comes from events, which *)
(* stamp it with the client's Date.now(), and from snapshots, which carry  *)
(* the timestamp the service took on its own clock.                        *)

\* A running match stamped by a service whose clock is ahead of the client's
SkewedSnapshot ==
    SnapshotOf(Num(1), None, None,
               Some(ServiceMatch(0, << >>, InitialTimeMs - 5, InitialTimeMs, MaxNow + 1)))

NextSkew ==
    \/ connect
    \/ \E c \in ChannelIds : StartSucceeds(c)
    \/ \E data \in {RunningSnapshot, SkewedSnapshot} : FetchSucceeds("connection", data)
    \/ FetchFails("connection")
    \/ \E c \in ChannelIds : OnGameStarted(c, "g1", "A", "B", Num(3), Num(5))
    \/ \E c \in ChannelIds : OnTournamentStatusChanged(c, Num(1))
    \/ \E c \in ChannelIds :
          OnMovePlayed(c, MoveEventOf(1, 2, InitialTimeMs, 0, 0, "red", None))
    \/ Tick
    \/ AdvanceClock

SpecSkew == Init /\ [][NextSkew]_vars

\* C20: a tick on a live match leaves each side's remaining time at most what
\* it was before the tick.
C20_TickNeverIncreasesTime ==
    [][ (Tick /\ IsSome(state.currentMatch)) =>
           /\ IsSome(state'.currentMatch)
           /\ Get(state'.currentMatch).redTimeRemainingMs <=
                 Get(state.currentMatch).redTimeRemainingMs
           /\ Get(state'.currentMatch).blueTimeRemainingMs <=
                 Get(state.currentMatch).blueTimeRemainingMs
      ]_vars

============================================================================
